---------------------------- MODULE Spec2Model ----------------------------
(***************************************************************************)
(* Model of the ticket system's core:                                      *)
(*   - DjangoUnitOfWork (adapters/django_app/shared/unit_of_work.py) and   *)
(*     the UnitOfWork context manager (core/shared/interfaces.py), with    *)
(*     the database connection, the EventStore and the EventPublisher it   *)
(*     calls;                                                              *)
(*   - TicketEntity (core/tickets/entities.py);                            *)
(*   - the application services (core/tickets/use_cases.py) on the         *)
(*     DjangoTicketRepository and a DjangoUnitOfWork.                      *)
(* Spec        : one thread using DjangoUnitOfWork instances.              *)
(* SpecTicket  : one TicketEntity under its operations.                    *)
(* SpecService : one thread invoking the application services.             *)
(***************************************************************************)
EXTENDS Naturals, Sequences, FiniteSets, TLC

(***************************************************************************)
(* Bounds of the model.                                                    *)
(***************************************************************************)
MaxEvents == 3
MaxScopes == 2
MaxInstances == 2
MaxInvocations == 3

(* the aggregate ids events are constructed for *)
AggregateIds == {"ticket-1", "ticket-2"}

VARIABLES
    \* --- one DjangoUnitOfWork instance (the current one) ---
    events,               \* UnitOfWork._events, the event buffer
    event_publisher,      \* TRUE iff an EventPublisher was given to __init__
    event_store,          \* TRUE iff an EventStore was given to __init__
    transaction_started,  \* _transaction_started
    committed,            \* _committed
    rolled_back,          \* _rolled_back
    sequence_counters,    \* _sequence_counters: aggregate_id -> last sequence
    \* --- the thread's database connection and the collaborators ---
    autocommit,           \* connection autocommit mode
    pending,              \* EventStore rows written in the open transaction
    eventStore,           \* EventStore rows durably committed
    ticketsPending,       \* ticket rows written in the open transaction, by id
    tickets,              \* ticket rows durably committed, by id
    published,            \* events handed to EventPublisher.publish, in call order
    \* --- bookkeeping of the run ---
    inScope,              \* the thread is inside a `with uow:` block
    scopeId,              \* number of the current (or last) scope, 0 before the first
    txScopes,             \* scopes whose work is in the open database transaction
    committedScopes,      \* scopes whose database transaction was committed
    rolledBackScopes,     \* scopes whose database transaction was rolled back
    nextEventId,          \* id of the next event constructed
    instances,            \* DjangoUnitOfWork instances constructed so far
    call,                 \* the last call made on the unit of work
    \* --- one TicketEntity ---
    ticket,               \* the entity's fields, or NoTicket
    now,                  \* the clock datetime.now() reads, in hours
    opResult,             \* the last ticket operation and its outcome
    \* --- the application services ---
    svc,                  \* the last service invocation and its outcome
    log,                  \* the successful invocations of mutating services
    threads,              \* the invocations running at once, one per thread
    \* --- an InMemoryUnitOfWork given the same calls as the DjangoUnitOfWork ---
    inMemory              \* its _events, _committed, _rolled_back, _published_events

uowVars == <<events, event_publisher, event_store, transaction_started, committed,
             rolled_back, sequence_counters, autocommit, pending, eventStore,
             ticketsPending, tickets, published, inScope, scopeId, txScopes, committedScopes,
             rolledBackScopes, nextEventId, instances, call>>
ticketVars == <<ticket, now, opResult>>
svcVars == <<svc, log, threads, inMemory>>
vars == <<uowVars, ticketVars, svcVars>>


(***************************************************************************)
(* TicketEntity (core/tickets/entities.py)                                 *)
(***************************************************************************)
TicketStatus == {"ABERTO", "EM_PROGRESSO", "AGUARDANDO_CLIENTE", "RESOLVIDO",
                 "FECHADO"}

TicketPriority == {"BAIXA", "MEDIA", "ALTA", "CRITICA"}

(* TicketPriority.sla_horas *)
sla_horas(prioridade) ==
    CASE prioridade = "CRITICA" -> 4
      [] prioridade = "ALTA" -> 24
      [] prioridade = "MEDIA" -> 72
      [] prioridade = "BAIXA" -> 168

TITULO_MIN_LENGTH == 3
TITULO_MAX_LENGTH == 200
DESCRICAO_MIN_LENGTH == 10
DESCRICAO_MAX_LENGTH == 5000

(* Optional[str] None *)
None == "None"

(* Optional[datetime]: None, or a time in hours *)
NoTime == <<>>

Time(h) == <<h>>

hours(time) == time[1]

(* A text is modelled by its shape: lead whitespace characters, then core   *)
(* characters that start and end with a non-blank one, then trail           *)
(* whitespace characters.                                                   *)
Str(lead, core, trail) == [lead |-> lead, core |-> core, trail |-> trail]

len(s) == s.lead + s.core + s.trail

(* str.strip() *)
strip(s) == Str(0, s.core, 0)

(* A tag is modelled by its name, whether it has upper-case letters and     *)
(* whether it has surrounding whitespace; tag.strip().lower()               *)
Tag(name, upper, padded) == [name |-> name, upper |-> upper, padded |-> padded]

strip_lower(tag) == Tag(tag.name, FALSE, FALSE)

(* the outcome of an operation: the entity after it and the error raised *)
NoError == [kind |-> "none", what |-> "none"]

ValidationError(field) == [kind |-> "ValidationError", what |-> field]

BusinessRuleViolationError(rule) ==
    [kind |-> "BusinessRuleViolationError", what |-> rule]

Ok(t) == [ticket |-> t, err |-> NoError]

Raise(t, err) == [ticket |-> t, err |-> err]

NoTicket == [exists |-> FALSE]

(* _validar_titulo measuring the title as given, not trimmed *)
validar_titulo_untrimmed(titulo) ==
    IF len(titulo) = 0 THEN ValidationError("titulo")
    ELSE IF len(titulo) < TITULO_MIN_LENGTH THEN ValidationError("titulo")
    ELSE IF len(titulo) > TITULO_MAX_LENGTH THEN ValidationError("titulo")
    ELSE NoError

(* _validar_titulo, _validar_descricao, _validar_criador: the error raised *)
validar_titulo(titulo) ==
    IF len(titulo) = 0 THEN ValidationError("titulo")
    ELSE IF len(strip(titulo)) < TITULO_MIN_LENGTH THEN ValidationError("titulo")
    ELSE IF len(strip(titulo)) > TITULO_MAX_LENGTH THEN ValidationError("titulo")
    ELSE NoError

validar_descricao(descricao) ==
    IF len(descricao) = 0 THEN ValidationError("descricao")
    ELSE IF len(strip(descricao)) < DESCRICAO_MIN_LENGTH
         THEN ValidationError("descricao")
    ELSE IF len(strip(descricao)) > DESCRICAO_MAX_LENGTH
         THEN ValidationError("descricao")
    ELSE NoError

validar_criador(criador_id) ==
    IF criador_id = "" THEN ValidationError("criador_id") ELSE NoError

(* _calcular_sla counting from the last modification *)
calcular_sla_from_update(t) ==
    [t EXCEPT !.sla_prazo = Time(t.atualizado_em + sla_horas(t.prioridade))]

(* _calcular_sla *)
calcular_sla(t) ==
    [t EXCEPT !.sla_prazo = Time(t.criado_em + sla_horas(t.prioridade))]

(* _atualizar_timestamp *)
atualizar_timestamp(t, clock) == [t EXCEPT !.atualizado_em = clock]

(* criar: clock1 and clock2 are the two datetime.now() readings of the      *)
(* dataclass defaults criado_em and atualizado_em                           *)
criar(titulo, descricao, criador_id, prioridade, tags, clock1, clock2) ==
    IF validar_titulo(titulo) # NoError THEN Raise(NoTicket, validar_titulo(titulo))
    ELSE IF validar_descricao(descricao) # NoError
         THEN Raise(NoTicket, validar_descricao(descricao))
    ELSE IF validar_criador(criador_id) # NoError
         THEN Raise(NoTicket, validar_criador(criador_id))
    ELSE Ok(calcular_sla(
            [exists |-> TRUE,
             titulo |-> strip(titulo),
             descricao |-> strip(descricao),
             criador_id |-> criador_id,
             prioridade |-> prioridade,
             status |-> "ABERTO",
             atribuido_a_id |-> None,
             criado_em |-> clock1,
             atualizado_em |-> clock2,
             sla_prazo |-> NoTime,
             tags |-> tags]))

(* atribuir_a checking the closed ticket before the empty technician *)
atribuir_a_closed_first(t, tecnico_id, clock) ==
    IF t.status = "FECHADO"
    THEN Raise(t, BusinessRuleViolationError("ticket_fechado_imutavel"))
    ELSE IF tecnico_id = "" THEN Raise(t, ValidationError("tecnico_id"))
    ELSE Ok(atualizar_timestamp(
            [t EXCEPT !.atribuido_a_id = tecnico_id, !.status = "EM_PROGRESSO"],
            clock))

atribuir_a(t, tecnico_id, clock) ==
    IF tecnico_id = "" THEN Raise(t, ValidationError("tecnico_id"))
    ELSE IF t.status = "FECHADO"
         THEN Raise(t, BusinessRuleViolationError("ticket_fechado_imutavel"))
    ELSE Ok(atualizar_timestamp(
            [t EXCEPT !.atribuido_a_id = tecnico_id, !.status = "EM_PROGRESSO"],
            clock))

(* the transition table with ABERTO -> RESOLVIDO added *)
transicoes_validas_skipping(status) ==
    CASE status = "ABERTO" -> {"EM_PROGRESSO", "AGUARDANDO_CLIENTE", "RESOLVIDO"}
      [] status = "EM_PROGRESSO" -> {"AGUARDANDO_CLIENTE", "RESOLVIDO"}
      [] status = "AGUARDANDO_CLIENTE" -> {"EM_PROGRESSO", "RESOLVIDO"}
      [] status = "RESOLVIDO" -> {"FECHADO", "EM_PROGRESSO"}
      [] status = "FECHADO" -> {"ABERTO"}
      [] OTHER -> {}

transicoes_validas(status) ==
    CASE status = "ABERTO" -> {"EM_PROGRESSO", "AGUARDANDO_CLIENTE"}
      [] status = "EM_PROGRESSO" -> {"AGUARDANDO_CLIENTE", "RESOLVIDO"}
      [] status = "AGUARDANDO_CLIENTE" -> {"EM_PROGRESSO", "RESOLVIDO"}
      [] status = "RESOLVIDO" -> {"FECHADO", "EM_PROGRESSO"}
      [] status = "FECHADO" -> {"ABERTO"}
      [] OTHER -> {}

(* alterar_status refreshing the timestamp before it checks the transition *)
alterar_status_stamping_first(t, novo_status, clock) ==
    IF novo_status \notin transicoes_validas(t.status)
    THEN Raise(atualizar_timestamp(t, clock),
               BusinessRuleViolationError("transicao_status_invalida"))
    ELSE Ok(atualizar_timestamp([t EXCEPT !.status = novo_status], clock))

alterar_status(t, novo_status, clock) ==
    IF novo_status \notin transicoes_validas(t.status)
    THEN Raise(t, BusinessRuleViolationError("transicao_status_invalida"))
    ELSE Ok(atualizar_timestamp([t EXCEPT !.status = novo_status], clock))

(* fechar without the check of the assignee *)
fechar_unassigned(t, clock) ==
    IF t.status = "FECHADO"
    THEN Raise(t, BusinessRuleViolationError("ticket_ja_fechado"))
    ELSE Ok(atualizar_timestamp([t EXCEPT !.status = "FECHADO"], clock))

(* fechar checking the status before the assignee *)
fechar_status_first(t, clock) ==
    IF t.status = "FECHADO"
    THEN Raise(t, BusinessRuleViolationError("ticket_ja_fechado"))
    ELSE IF t.atribuido_a_id = None \/ t.atribuido_a_id = ""
         THEN Raise(t, BusinessRuleViolationError("atribuicao_obrigatoria_para_fechar"))
    ELSE Ok(atualizar_timestamp([t EXCEPT !.status = "FECHADO"], clock))

fechar(t, clock) ==
    IF t.atribuido_a_id = None \/ t.atribuido_a_id = ""
    THEN Raise(t, BusinessRuleViolationError("atribuicao_obrigatoria_para_fechar"))
    ELSE IF t.status = "FECHADO"
         THEN Raise(t, BusinessRuleViolationError("ticket_ja_fechado"))
    ELSE Ok(atualizar_timestamp([t EXCEPT !.status = "FECHADO"], clock))

(* reabrir keeping the assignee *)
reabrir_keeping_assignee(t, clock) ==
    IF t.status # "FECHADO"
    THEN Raise(t, BusinessRuleViolationError("apenas_fechado_pode_reabrir"))
    ELSE Ok(atualizar_timestamp([t EXCEPT !.status = "ABERTO"], clock))

reabrir(t, clock) ==
    IF t.status # "FECHADO"
    THEN Raise(t, BusinessRuleViolationError("apenas_fechado_pode_reabrir"))
    ELSE Ok(atualizar_timestamp(
            [t EXCEPT !.status = "ABERTO", !.atribuido_a_id = None], clock))

alterar_prioridade(t, nova_prioridade, clock) ==
    IF t.status = "FECHADO"
    THEN Raise(t, BusinessRuleViolationError("ticket_fechado_imutavel"))
    ELSE Ok(atualizar_timestamp(
            calcular_sla([t EXCEPT !.prioridade = nova_prioridade]), clock))

(* `x in list` and list.remove(x), which removes the first occurrence *)
Contains(list, x) == \E i \in DOMAIN list : list[i] = x

RemoveFirst(list, x) ==
    LET i == CHOOSE k \in DOMAIN list :
                 list[k] = x /\ \A j \in 1..(k - 1) : list[j] # x
    IN  SubSeq(list, 1, i - 1) \o SubSeq(list, i + 1, Len(list))

adicionar_tag(t, tag, clock) ==
    LET tag_limpa == strip_lower(tag)
    IN  IF tag_limpa.name # "" /\ ~Contains(t.tags, tag_limpa)
        THEN Ok(atualizar_timestamp([t EXCEPT !.tags = Append(t.tags, tag_limpa)],
                                    clock))
        ELSE Ok(t)

remover_tag(t, tag, clock) ==
    LET tag_limpa == strip_lower(tag)
    IN  IF Contains(t.tags, tag_limpa)
        THEN Ok(atualizar_timestamp(
                [t EXCEPT !.tags = RemoveFirst(t.tags, tag_limpa)], clock))
        ELSE Ok(t)

(* esta_atrasado counting the deadline itself as late *)
esta_atrasado_inclusive(t, clock) ==
    IF t.sla_prazo = NoTime THEN FALSE
    ELSE IF t.status = "FECHADO" THEN FALSE
    ELSE clock >= hours(t.sla_prazo)

esta_atrasado(t, clock) ==
    IF t.sla_prazo = NoTime THEN FALSE
    ELSE IF t.status = "FECHADO" THEN FALSE
    ELSE clock > hours(t.sla_prazo)

esta_atribuido(t) == t.atribuido_a_id # None


(***************************************************************************)
(* One TicketEntity under its operations.  The clock starts when the       *)
(* ticket is created and only moves forward.                               *)
(***************************************************************************)
Titulos == {Str(0, 0, 0), Str(1, 2, 1), Str(1, 3, 1), Str(0, 201, 0)}

Descricoes == {Str(0, 0, 0), Str(0, 9, 1), Str(1, 10, 0), Str(0, 5001, 0)}

Criadores == {"", "u1"}

Tecnicos == {"", "t1", "t2"}

InitialTags == {<<>>, <<Tag("a", TRUE, TRUE)>>,
                <<Tag("a", FALSE, FALSE), Tag("a", FALSE, FALSE)>>}

TagInputs == {Tag("a", FALSE, FALSE), Tag("a", TRUE, TRUE), Tag("", FALSE, TRUE)}

(* the instants the clock is read at: creation at 0, the hour after it,     *)
(* each SLA deadline of a ticket created at 0, and the hour after the last  *)
TimePoints ==
    {0, 1} \cup {sla_horas(p) : p \in TicketPriority}
           \cup {sla_horas("BAIXA") + 1}

NoTag == Tag("", FALSE, FALSE)

(* opResult: the operation, its argument, the error it raised, the status   *)
(* the ticket had before it, and whether the ticket has been reopened by    *)
(* reabrir with no atribuir_a having succeeded since                        *)
NoOp == [op |-> "none", arg |-> "", tag |-> NoTag, err |-> NoError,
         from |-> "", reopened |-> FALSE]

Applied(op, arg, tag, r) ==
    [op |-> op, arg |-> arg, tag |-> tag, err |-> r.err,
     from |-> IF ticket.exists THEN ticket.status ELSE "",
     reopened |-> IF r.err # NoError THEN opResult.reopened
                  ELSE IF op = "reabrir" THEN TRUE
                  ELSE IF op \in {"criar", "atribuir_a"} THEN FALSE
                  ELSE opResult.reopened]

InitTicketVars ==
    /\ ticket = NoTicket
    /\ now = 0
    /\ opResult = NoOp

Apply(op, arg, tag, r) ==
    /\ ticket' = r.ticket
    /\ opResult' = Applied(op, arg, tag, r)

Criar ==
    /\ ~ticket.exists
    /\ \E titulo \in Titulos, descricao \in Descricoes, criador_id \in Criadores,
          prioridade \in TicketPriority, tags \in InitialTags,
          clock2 \in {t \in TimePoints : now <= t /\ t <= now + 1} :
          /\ Apply("criar", prioridade, NoTag,
                   criar(titulo, descricao, criador_id, prioridade, tags, now, clock2))
          /\ now' = clock2
    /\ UNCHANGED <<uowVars, svcVars>>

AtribuirA ==
    /\ ticket.exists
    /\ \E tecnico_id \in Tecnicos :
          Apply("atribuir_a", tecnico_id, NoTag, atribuir_a(ticket, tecnico_id, now))
    /\ UNCHANGED <<now, uowVars, svcVars>>

AlterarStatus ==
    /\ ticket.exists
    /\ \E novo_status \in TicketStatus :
          Apply("alterar_status", novo_status, NoTag,
                alterar_status(ticket, novo_status, now))
    /\ UNCHANGED <<now, uowVars, svcVars>>

Fechar ==
    /\ ticket.exists
    /\ Apply("fechar", "", NoTag, fechar(ticket, now))
    /\ UNCHANGED <<now, uowVars, svcVars>>

Reabrir ==
    /\ ticket.exists
    /\ Apply("reabrir", "", NoTag, reabrir(ticket, now))
    /\ UNCHANGED <<now, uowVars, svcVars>>

AlterarPrioridade ==
    /\ ticket.exists
    /\ \E nova_prioridade \in TicketPriority :
          Apply("alterar_prioridade", nova_prioridade, NoTag,
                alterar_prioridade(ticket, nova_prioridade, now))
    /\ UNCHANGED <<now, uowVars, svcVars>>

AdicionarTag ==
    /\ ticket.exists
    /\ \E tag \in TagInputs :
          Apply("adicionar_tag", "", tag, adicionar_tag(ticket, tag, now))
    /\ UNCHANGED <<now, uowVars, svcVars>>

RemoverTag ==
    /\ ticket.exists
    /\ \E tag \in TagInputs :
          Apply("remover_tag", "", tag, remover_tag(ticket, tag, now))
    /\ UNCHANGED <<now, uowVars, svcVars>>

(* time passes *)
Tick ==
    /\ ticket.exists
    /\ \E t \in TimePoints : t > now /\ now' = t
    /\ opResult' = [NoOp EXCEPT !.op = "tick", !.reopened = opResult.reopened]
    /\ UNCHANGED <<ticket, uowVars, svcVars>>

NextTicket ==
    \/ Criar
    \/ AtribuirA
    \/ AlterarStatus
    \/ Fechar
    \/ Reabrir
    \/ AlterarPrioridade
    \/ AdicionarTag
    \/ RemoverTag
    \/ Tick

(***************************************************************************)
(* The unit of work with its connection and collaborators, as one record   *)
(* the methods below transform.  exc is TRUE while an exception raised by  *)
(* the method is propagating; hit collects the faults the method's calls   *)
(* to the collaborators have met, each as <<call, index or event id>>.       *)
(***************************************************************************)
World ==
    [events |-> events, event_publisher |-> event_publisher,
     event_store |-> event_store, transaction_started |-> transaction_started,
     committed |-> committed, rolled_back |-> rolled_back,
     sequence_counters |-> sequence_counters, autocommit |-> autocommit,
     pending |-> pending, eventStore |-> eventStore,
     ticketsPending |-> ticketsPending, tickets |-> tickets,
     published |-> published,
     txScopes |-> txScopes, committedScopes |-> committedScopes,
     rolledBackScopes |-> rolledBackScopes, exc |-> FALSE, hit |-> {}]

Install(w) ==
    /\ events' = w.events
    /\ event_publisher' = w.event_publisher
    /\ event_store' = w.event_store
    /\ transaction_started' = w.transaction_started
    /\ committed' = w.committed
    /\ rolled_back' = w.rolled_back
    /\ sequence_counters' = w.sequence_counters
    /\ autocommit' = w.autocommit
    /\ pending' = w.pending
    /\ eventStore' = w.eventStore
    /\ ticketsPending' = w.ticketsPending
    /\ tickets' = w.tickets
    /\ published' = w.published
    /\ txScopes' = w.txScopes
    /\ committedScopes' = w.committedScopes
    /\ rolledBackScopes' = w.rolledBackScopes

(***************************************************************************)
(* Faults the collaborators can answer a call with:                        *)
(*   append     the index of the EventStore.append call that raises (0:    *)
(*              none), commit: transaction.commit() raises,                *)
(*   publish    the indexes of the EventPublisher.publish calls that       *)
(*              raise, rollback: transaction.rollback() raises,            *)
(*   autocommit transaction.set_autocommit(True) raises.                   *)
(***************************************************************************)
Faults(n) ==
    {f \in [append : 0..n, commit : BOOLEAN, publish : SUBSET (1..n),
            rollback : BOOLEAN, autocommit : BOOLEAN] :
        /\ (f.append # 0 => ~f.commit /\ f.publish = {})
        /\ (f.commit => f.publish = {})
        /\ (f.rollback => f.append # 0 \/ f.commit)}

RollbackFaults ==
    [append : {0}, commit : {FALSE}, publish : {{}},
     rollback : BOOLEAN, autocommit : BOOLEAN]

(***************************************************************************)
(* django.db.transaction on the thread's connection.                       *)
(***************************************************************************)
transaction_commit(w, fails) ==
    IF fails THEN [w EXCEPT !.exc = TRUE, !.hit = w.hit \cup {<<"commit", 0>>}]
    ELSE [w EXCEPT !.eventStore = w.eventStore \o w.pending,
                   !.pending = <<>>,
                   !.tickets = w.ticketsPending @@ w.tickets,
                   !.ticketsPending = <<>>,
                   !.committedScopes = w.committedScopes \cup w.txScopes,
                   !.txScopes = {}]

transaction_rollback(w, fails) ==
    IF fails THEN [w EXCEPT !.exc = TRUE, !.hit = w.hit \cup {<<"rollback", 0>>}]
    ELSE [w EXCEPT !.pending = <<>>,
                   !.ticketsPending = <<>>,
                   !.rolledBackScopes = w.rolledBackScopes \cup w.txScopes,
                   !.txScopes = {}]

(* DjangoEventStore.append: model.save() on the connection *)
event_store_append(w, event, sequence) ==
    LET row == [event |-> event, sequence |-> sequence]
    IN  IF w.autocommit THEN [w EXCEPT !.eventStore = Append(w.eventStore, row)]
        ELSE [w EXCEPT !.pending = Append(w.pending, row)]

(* EventPublisher.publish: the publisher receives the event, and may raise *)
publisher_publish(w, event, fails) ==
    [w EXCEPT !.published = Append(w.published, event),
              !.exc = fails,
              !.hit = IF fails THEN w.hit \cup {<<"publish", event.id>>}
                      ELSE w.hit]

(***************************************************************************)
(* UnitOfWork (core/shared/interfaces.py)                                  *)
(***************************************************************************)
publish_event(w, event) == [w EXCEPT !.events = Append(w.events, event)]

clear_events(w) == [w EXCEPT !.events = <<>>]

(***************************************************************************)
(* DjangoUnitOfWork                                                        *)
(***************************************************************************)
begin_transaction(w) ==
    IF ~w.transaction_started
    THEN [w EXCEPT !.autocommit = FALSE, !.transaction_started = TRUE]
    ELSE w

finalize(w, fails) ==
    IF w.transaction_started
    THEN [w EXCEPT !.autocommit = IF fails THEN w.autocommit ELSE TRUE,
                   !.hit = IF fails THEN w.hit \cup {<<"autocommit", 0>>} ELSE w.hit,
                   !.transaction_started = FALSE]
    ELSE w

(* get_next_sequence with one counter for all aggregates *)
get_next_sequence_shared(counters, aggregate_id) ==
    LET c0 == IF "all" \notin DOMAIN counters
              THEN counters @@ ("all" :> 0)
              ELSE counters
        c1 == [c0 EXCEPT !["all"] = @ + 1]
    IN  [counters |-> c1, sequence |-> c1["all"]]

(* the counters after the call and the sequence number it returns *)
get_next_sequence(counters, aggregate_id) ==
    LET c0 == IF aggregate_id \notin DOMAIN counters
              THEN counters @@ (aggregate_id :> 0)
              ELSE counters
        c1 == [c0 EXCEPT ![aggregate_id] = @ + 1]
    IN  [counters |-> c1, sequence |-> c1[aggregate_id]]

RECURSIVE persist_from(_, _, _)
persist_from(w, i, failAt) ==
    IF i > Len(w.events) THEN w
    ELSE LET event == w.events[i]
             nxt == get_next_sequence(w.sequence_counters, event.aggregate_id)
             w1 == [w EXCEPT !.sequence_counters = nxt.counters]
         IN  IF i = failAt
             THEN [w1 EXCEPT !.exc = TRUE, !.hit = w.hit \cup {<<"append", event.id>>}]
             ELSE persist_from(event_store_append(w1, event, nxt.sequence),
                               i + 1, failAt)

persist_events(w, failAt) == persist_from(w, 1, failAt)

RECURSIVE publish_from(_, _, _)
publish_from(w, i, failing) ==
    IF i > Len(w.events) THEN w
    ELSE LET w1 == IF w.event_publisher
                   THEN publisher_publish(w, w.events[i], i \in failing)
                   ELSE w
         IN  \* except Exception: the failure is logged and the loop goes on
             publish_from([w1 EXCEPT !.exc = FALSE], i + 1, failing)

(* publish_events without the try/except around publish *)
RECURSIVE publish_from_uncaught(_, _, _)
publish_from_uncaught(w, i, failing) ==
    IF i > Len(w.events) THEN clear_events(w)
    ELSE LET w1 == IF w.event_publisher
                   THEN publisher_publish(w, w.events[i], i \in failing)
                   ELSE w
         IN  IF w1.exc THEN w1 ELSE publish_from_uncaught(w1, i + 1, failing)

publish_events_uncaught(w, failing) == publish_from_uncaught(w, 1, failing)

publish_events(w, failing) == clear_events(publish_from(w, 1, failing))

(* rollback without the guard on a finalized unit of work *)
rollback_unguarded(w, f) ==
    LET w1 == IF w.transaction_started
              THEN transaction_rollback(w, f.rollback)
              ELSE w
        w2 == [w1 EXCEPT !.exc = FALSE, !.rolled_back = TRUE]
    IN  finalize(clear_events(w2), f.autocommit)

rollback(w, f) ==
    IF w.committed \/ w.rolled_back THEN w
    ELSE LET w1 == IF w.transaction_started
                   THEN transaction_rollback(w, f.rollback)
                   ELSE w
             w2 == [w1 EXCEPT !.exc = FALSE, !.rolled_back = TRUE]
         IN  finalize(clear_events(w2), f.autocommit)

(* commit publishing the events before the database commit *)
commit_publishing_first(w, f) ==
    IF w.committed \/ w.rolled_back THEN w
    ELSE LET w1 == IF w.event_store /\ Len(w.events) > 0
                   THEN persist_events(w, f.append)
                   ELSE w
             w2 == IF ~w1.exc /\ Len(w1.events) > 0
                   THEN [publish_from(w1, 1, f.publish) EXCEPT !.exc = FALSE]
                   ELSE w1
             w3 == IF ~w2.exc /\ w2.transaction_started
                   THEN transaction_commit(w2, f.commit)
                   ELSE w2
             w4 == IF ~w3.exc THEN clear_events([w3 EXCEPT !.committed = TRUE])
                   ELSE w3
             w5 == IF w4.exc
                   THEN [rollback([w4 EXCEPT !.exc = FALSE], f) EXCEPT !.exc = TRUE]
                   ELSE w4
         IN  finalize(w5, f.autocommit)

(* commit setting _committed before the database commit *)
commit_marking_first(w, f) ==
    IF w.committed \/ w.rolled_back THEN w
    ELSE LET w0 == [w EXCEPT !.committed = TRUE]
             w1 == IF w0.event_store /\ Len(w0.events) > 0
                   THEN persist_events(w0, f.append)
                   ELSE w0
             w2 == IF ~w1.exc /\ w1.transaction_started
                   THEN transaction_commit(w1, f.commit)
                   ELSE w1
             w4 == IF ~w2.exc /\ Len(w2.events) > 0
                   THEN publish_events(w2, f.publish)
                   ELSE w2
             w5 == IF w4.exc
                   THEN [rollback([w4 EXCEPT !.exc = FALSE], f) EXCEPT !.exc = TRUE]
                   ELSE w4
         IN  finalize(w5, f.autocommit)

commit(w, f) ==
    IF w.committed \/ w.rolled_back THEN w
    ELSE LET w1 == IF w.event_store /\ Len(w.events) > 0
                   THEN persist_events(w, f.append)
                   ELSE w
             w2 == IF ~w1.exc /\ w1.transaction_started
                   THEN transaction_commit(w1, f.commit)
                   ELSE w1
             w3 == IF ~w2.exc THEN [w2 EXCEPT !.committed = TRUE] ELSE w2
             w4 == IF ~w3.exc /\ Len(w3.events) > 0
                   THEN publish_events(w3, f.publish)
                   ELSE w3
             w5 == IF w4.exc
                   THEN [rollback([w4 EXCEPT !.exc = FALSE], f) EXCEPT !.exc = TRUE]
                   ELSE w4
         IN  finalize(w5, f.autocommit)

(* UnitOfWork.__enter__ and __exit__ *)
enter(w) == begin_transaction(w)

exit(w, exception, f) == IF exception THEN rollback(w, f) ELSE commit(w, f)


(***************************************************************************)
(* DjangoTicketRepository (adapters/django_app/tickets/repositories.py) on *)
(* the thread's connection: a read sees the rows written in the open       *)
(* transaction before the committed ones.                                  *)
(***************************************************************************)
(* the ids uuid4 gives to new tickets, and the ids the services are asked for *)
TicketIds == {"ticket-1"}

RequestedIds == AggregateIds

Put(table, key, row) ==
    [k \in DOMAIN table \cup {key} |-> IF k = key THEN row ELSE table[k]]

get_by_id(w, ticket_id) ==
    IF ticket_id \in DOMAIN w.ticketsPending THEN w.ticketsPending[ticket_id]
    ELSE IF ticket_id \in DOMAIN w.tickets THEN w.tickets[ticket_id]
    ELSE NoTicket

save(w, ticket_id, t) ==
    IF w.autocommit THEN [w EXCEPT !.tickets = Put(w.tickets, ticket_id, t)]
    ELSE [w EXCEPT !.ticketsPending = Put(w.ticketsPending, ticket_id, t)]

(* uuid.uuid4(): an id no ticket has *)
uuid4(w) ==
    CHOOSE id \in TicketIds : id \notin DOMAIN w.tickets \cup DOMAIN w.ticketsPending

(***************************************************************************)
(* The domain events of core/tickets/events.py: the class name, the        *)
(* aggregate id and the payload fields the services fill.                  *)
(***************************************************************************)
NoData == [prioridade |-> "", tecnico_id |-> "", dentro_sla |-> TRUE,
           prioridade_anterior |-> ""]

DomainEvent(type, aggregate_id, data, id, scope) ==
    [id |-> id, aggregate_id |-> aggregate_id, scope |-> scope, type |-> type,
     data |-> data]

TicketCriadoEvent(aggregate_id, t, id, scope) ==
    DomainEvent("TicketCriadoEvent", aggregate_id,
                [NoData EXCEPT !.prioridade = t.prioridade], id, scope)

TicketAtribuidoEvent(aggregate_id, tecnico_id, id, scope) ==
    DomainEvent("TicketAtribuidoEvent", aggregate_id,
                [NoData EXCEPT !.tecnico_id = tecnico_id], id, scope)

TicketFechadoEvent(aggregate_id, dentro_sla, id, scope) ==
    DomainEvent("TicketFechadoEvent", aggregate_id,
                [NoData EXCEPT !.dentro_sla = dentro_sla], id, scope)

TicketReabertoEvent(aggregate_id, id, scope) ==
    DomainEvent("TicketReabertoEvent", aggregate_id, NoData, id, scope)

TicketPrioridadeAlteradaEvent(aggregate_id, anterior, nova, id, scope) ==
    DomainEvent("TicketPrioridadeAlteradaEvent", aggregate_id,
                [NoData EXCEPT !.prioridade_anterior = anterior,
                               !.prioridade = nova], id, scope)

(***************************************************************************)
(* The application services (core/tickets/use_cases.py).  The body of a    *)
(* `with self.uow:` block gives the world after it, the exception it       *)
(* raised, the calls it made on the repository and the unit of work, and   *)
(* the id of the ticket it worked on.                                      *)
(***************************************************************************)
EntityNotFoundError == [kind |-> "EntityNotFoundError", what |-> "Ticket"]

(* an exception of the database, raised by the repository or by commit *)
DatabaseError(what) == [kind |-> "DatabaseError", what |-> what]

TypeError == [kind |-> "TypeError", what |-> "count_by_status"]

(***************************************************************************)
(* The central dispatcher of adapters/django_app/events/handlers.py: the   *)
(* dictionary from event type names to handlers, and the set of handlers   *)
(* dispatch_domain_event invokes for an event type name (none when the     *)
(* name is not a key; the dispatcher then only logs a warning).            *)
(***************************************************************************)
handlers ==
    [type \in {"TicketCriadoEvent", "TicketAtribuidoEvent", "TicketFechadoEvent",
               "TicketReabertoEvent", "PrioridadeAlteradaEvent"} |->
        CASE type = "TicketCriadoEvent" -> "handle_ticket_criado"
          [] type = "TicketAtribuidoEvent" -> "handle_ticket_atribuido"
          [] type = "TicketFechadoEvent" -> "handle_ticket_fechado"
          [] type = "TicketReabertoEvent" -> "handle_ticket_reaberto"
          [] type = "PrioridadeAlteradaEvent" -> "handle_prioridade_alterada"]

dispatch_domain_event(event_type) ==
    IF event_type \in DOMAIN handlers THEN {handlers[event_type]} ELSE {}

(* CeleryEventPublisher.publish: the dispatcher is called with the name    *)
(* the event object reports, DomainEvent.event_type, its class name.       *)
CeleryEventPublisher_publish(event) == dispatch_domain_event(event.type)

(* the answers of the repository: get_by_id raises, or save raises *)
RepositoryFaults ==
    {sf \in [get : BOOLEAN, save : BOOLEAN] : ~(sf.get /\ sf.save)}

SaveFaults == {sf \in RepositoryFaults : ~sf.get}

Body(w, err, steps, ticket_id) ==
    [w |-> w, err |-> err, steps |-> steps, ticket_id |-> ticket_id]

(* self.ticket_repo.save(ticket) after self.uow.publish_event(event) *)
publish_and_save(w, ticket_id, t, event, sf) ==
    IF sf.save
    THEN Body(publish_event(w, event), DatabaseError("save"),
              <<"publish_event", "save">>, ticket_id)
    ELSE Body(save(publish_event(w, event), ticket_id, t), NoError,
              <<"publish_event", "save">>, ticket_id)

(* self.ticket_repo.save(ticket); self.uow.publish_event(event) *)
save_and_publish(w, ticket_id, t, event, sf) ==
    IF sf.save THEN Body(w, DatabaseError("save"), <<"save">>, ticket_id)
    ELSE Body(publish_event(save(w, ticket_id, t), event), NoError,
              <<"save", "publish_event">>, ticket_id)

(* a body that loads the ticket first: the steps after the load *)
Loaded(b) == [b EXCEPT !.steps = <<"get_by_id">> \o b.steps]

(* TicketPriority[name.upper()]: the names of the enum, in any case *)
PriorityNames == {"alta", "MEDIA", "URGENTE"}

upper(name) == IF name = "alta" THEN "ALTA" ELSE name

(* CriarTicketService.execute, inside the block *)
criar_ticket_body(w, dto, event_id, scope, clock, sf) ==
    IF upper(dto.prioridade) \notin TicketPriority
    THEN Body(w, ValidationError("prioridade"), <<>>, "")
    ELSE LET r == criar(dto.titulo, dto.descricao, dto.criador_id,
                        upper(dto.prioridade), dto.tags, clock, clock)
             ticket_id == uuid4(w)
         IN  IF r.err # NoError THEN Body(w, r.err, <<>>, "")
             ELSE save_and_publish(w, ticket_id, r.ticket,
                     TicketCriadoEvent(ticket_id, r.ticket, event_id, scope), sf)

(* AtribuirTicketService.execute, inside the block *)
atribuir_ticket_body(w, dto, event_id, scope, clock, sf) ==
    IF sf.get THEN Body(w, DatabaseError("get_by_id"), <<"get_by_id">>, dto.ticket_id)
    ELSE LET t == get_by_id(w, dto.ticket_id)
             r == atribuir_a(t, dto.arg, clock)
         IN  IF ~t.exists
             THEN Body(w, EntityNotFoundError, <<"get_by_id">>, dto.ticket_id)
             ELSE IF r.err # NoError
                  THEN Body(w, r.err, <<"get_by_id">>, dto.ticket_id)
             ELSE Loaded(save_and_publish(w, dto.ticket_id, r.ticket,
                     TicketAtribuidoEvent(dto.ticket_id, dto.arg, event_id, scope),
                     sf))

(* FecharTicketService.execute reading esta_atrasado after ticket.fechar() *)
fechar_ticket_body_flag_after_close(w, dto, event_id, scope, clock, sf) ==
    IF sf.get THEN Body(w, DatabaseError("get_by_id"), <<"get_by_id">>, dto.ticket_id)
    ELSE LET t == get_by_id(w, dto.ticket_id)
             r == fechar(t, clock)
             dentro_sla == ~esta_atrasado(r.ticket, clock)
         IN  IF ~t.exists
             THEN Body(w, EntityNotFoundError, <<"get_by_id">>, dto.ticket_id)
             ELSE IF r.err # NoError
                  THEN Body(w, r.err, <<"get_by_id">>, dto.ticket_id)
             ELSE Loaded(save_and_publish(w, dto.ticket_id, r.ticket,
                     TicketFechadoEvent(dto.ticket_id, dentro_sla, event_id, scope),
                     sf))

(* FecharTicketService.execute, inside the block *)
fechar_ticket_body(w, dto, event_id, scope, clock, sf) ==
    IF sf.get THEN Body(w, DatabaseError("get_by_id"), <<"get_by_id">>, dto.ticket_id)
    ELSE LET t == get_by_id(w, dto.ticket_id)
             dentro_sla == ~esta_atrasado(t, clock)
             r == fechar(t, clock)
         IN  IF ~t.exists
             THEN Body(w, EntityNotFoundError, <<"get_by_id">>, dto.ticket_id)
             ELSE IF r.err # NoError
                  THEN Body(w, r.err, <<"get_by_id">>, dto.ticket_id)
             ELSE Loaded(save_and_publish(w, dto.ticket_id, r.ticket,
                     TicketFechadoEvent(dto.ticket_id, dentro_sla, event_id, scope),
                     sf))

(* ReabrirTicketService.execute, inside the block *)
reabrir_ticket_body(w, dto, event_id, scope, clock, sf) ==
    IF sf.get THEN Body(w, DatabaseError("get_by_id"), <<"get_by_id">>, dto.ticket_id)
    ELSE LET t == get_by_id(w, dto.ticket_id)
             r == reabrir(t, clock)
         IN  IF ~t.exists
             THEN Body(w, EntityNotFoundError, <<"get_by_id">>, dto.ticket_id)
             ELSE IF r.err # NoError
                  THEN Body(w, r.err, <<"get_by_id">>, dto.ticket_id)
             ELSE Loaded(save_and_publish(w, dto.ticket_id, r.ticket,
                     TicketReabertoEvent(dto.ticket_id, event_id, scope), sf))

(* AlterarPrioridadeService.execute, inside the block *)
alterar_prioridade_body(w, dto, event_id, scope, clock, sf) ==
    IF sf.get THEN Body(w, DatabaseError("get_by_id"), <<"get_by_id">>, dto.ticket_id)
    ELSE LET t == get_by_id(w, dto.ticket_id)
             r == alterar_prioridade(t, upper(dto.arg), clock)
         IN  IF ~t.exists
             THEN Body(w, EntityNotFoundError, <<"get_by_id">>, dto.ticket_id)
             ELSE IF upper(dto.arg) \notin TicketPriority
                  THEN Body(w, ValidationError("nova_prioridade"), <<"get_by_id">>,
                            dto.ticket_id)
             ELSE IF r.err # NoError
                  THEN Body(w, r.err, <<"get_by_id">>, dto.ticket_id)
             ELSE Loaded(save_and_publish(w, dto.ticket_id, r.ticket,
                     TicketPrioridadeAlteradaEvent(dto.ticket_id, t.prioridade,
                                                   upper(dto.arg), event_id, scope),
                     sf))

(* `with self.uow:` around a body: __enter__, the body, __exit__ with the  *)
(* exception of the body, which __exit__ does not suppress.  The result    *)
(* has the exception raised in the block, the one that reaches the caller  *)
(* and the events the body enqueued.                                       *)
with_uow(w, b, f) ==
    LET w1 == exit(b.w, b.err # NoError, f)
    IN  [w |-> w1,
         raised |-> b.err,
         err |-> IF b.err # NoError THEN b.err
                 ELSE IF w1.exc THEN DatabaseError("commit")
                 ELSE NoError,
         steps |-> b.steps,
         ticket_id |-> b.ticket_id,
         enqueued |-> SubSeq(b.w.events, Len(w.events) + 1, Len(b.w.events))]

(* __enter__ of the block of scope number scope *)
enter_scope(w, scope) ==
    [enter(w) EXCEPT !.txScopes = @ \cup {scope}]


(* unit_of_work_factory handing the sequence counters on to the new unit   *)
(* of work                                                                 *)
unit_of_work_factory_keeping_counters(w) ==
    [w EXCEPT !.events = <<>>, !.transaction_started = FALSE,
              !.committed = FALSE, !.rolled_back = FALSE]

(* Container.unit_of_work_factory: a new DjangoUnitOfWork with the same    *)
(* publisher and store, on the same connection                             *)
unit_of_work_factory(w) ==
    [w EXCEPT !.events = <<>>, !.transaction_started = FALSE,
              !.committed = FALSE, !.rolled_back = FALSE,
              !.sequence_counters = <<>>]

(* the input of a service: the fields of its DTO or its arguments *)
NoDto == [ticket_id |-> "", arg |-> "", titulo |-> Str(0, 0, 0),
          descricao |-> Str(0, 0, 0), criador_id |-> "", prioridade |-> "",
          tags |-> <<>>]

(* svc: the number of the invocation, the service, its input, whether its  *)
(* unit of work had finished a scope before, whether it opened a scope,    *)
(* the exception raised in the block and the one that reached the caller,  *)
(* the calls of the block, the ticket, the events enqueued and the number  *)
(* of events published before the invocation                               *)
NoInvocation ==
    [n |-> 0, op |-> "none", dto |-> NoDto, reused |-> FALSE, entered |-> FALSE,
     raised |-> NoError, err |-> NoError, steps |-> <<>>, ticket_id |-> "",
     enqueued |-> <<>>, pubBefore |-> 0]

(***************************************************************************)
(* The calls a thread makes on a unit of work.                             *)
(***************************************************************************)
(* call: the operation, the scope it belongs to, the faults it met, whether *)
(* it raised, and the unit of work, connection and collaborators as the     *)
(* call found them                                                          *)
(* InMemoryUnitOfWork.__init__: an empty buffer, both flags off and        *)
(* nothing published                                                       *)
InMemoryUnitOfWork_init ==
    [events |-> <<>>, committed |-> FALSE, rolled_back |-> FALSE,
     published |-> <<>>]

Called(op, w) ==
    [op |-> op, scope |-> scopeId, hit |-> w.hit, raised |-> w.exc,
     pre |-> World]

Init ==
    /\ events = <<>>
    /\ event_publisher \in BOOLEAN
    /\ event_store \in BOOLEAN
    /\ transaction_started = FALSE
    /\ committed = FALSE
    /\ rolled_back = FALSE
    /\ sequence_counters = <<>>
    /\ autocommit = TRUE
    /\ pending = <<>>
    /\ eventStore = <<>>
    /\ ticketsPending = <<>>
    /\ tickets = <<>>
    /\ published = <<>>
    /\ inScope = FALSE
    /\ scopeId = 0
    /\ txScopes = {}
    /\ committedScopes = {}
    /\ rolledBackScopes = {}
    /\ nextEventId = 1
    /\ instances = 1
    /\ call = Called("none", World)
    /\ InitTicketVars
    /\ svc = NoInvocation
    /\ log = <<>>
    /\ threads = <<>>
    /\ inMemory = InMemoryUnitOfWork_init

(* a new DjangoUnitOfWork is taken from the factory *)
NewUnitOfWork ==
    /\ ~inScope
    /\ instances < MaxInstances
    /\ instances' = instances + 1
    /\ Install(unit_of_work_factory(World))
    /\ call' = Called("init", World)
    /\ UNCHANGED <<inScope, scopeId, nextEventId, ticketVars, svcVars>>

(* `with uow:` is entered: __enter__ *)
Enter ==
    /\ ~inScope
    /\ scopeId < MaxScopes
    /\ inScope' = TRUE
    /\ scopeId' = scopeId + 1
    /\ LET w == enter(World)
       IN  /\ Install([w EXCEPT !.txScopes = w.txScopes \cup {scopeId + 1}])
           /\ call' = [Called("enter", w) EXCEPT !.scope = scopeId + 1]
    /\ UNCHANGED <<nextEventId, instances, ticketVars, svcVars>>

(* uow.publish_event(event) inside the block *)
PublishEvent ==
    /\ inScope
    /\ nextEventId <= MaxEvents
    /\ \E a \in AggregateIds :
          LET event == [id |-> nextEventId, aggregate_id |-> a, scope |-> scopeId]
              w == publish_event(World, event)
          IN  /\ Install(w)
              /\ call' = Called("publish_event", w)
    /\ nextEventId' = nextEventId + 1
    /\ UNCHANGED <<inScope, scopeId, instances, ticketVars, svcVars>>

(* the block ends without an exception: __exit__(None, None, None) *)
ExitNormal ==
    /\ inScope
    /\ inScope' = FALSE
    /\ \E f \in Faults(Len(events)) :
          LET w == exit(World, FALSE, f)
          IN  /\ Install(w)
              /\ call' = Called("exit_normal", w)
    /\ UNCHANGED <<scopeId, nextEventId, instances, ticketVars, svcVars>>

(* the block ends by an exception: __exit__(exc_type, ...), which re-raises *)
ExitException ==
    /\ inScope
    /\ inScope' = FALSE
    /\ \E f \in RollbackFaults :
          LET w == exit(World, TRUE, f)
          IN  /\ Install(w)
              /\ call' = [Called("exit_exception", w) EXCEPT !.raised = TRUE]
    /\ UNCHANGED <<scopeId, nextEventId, instances, ticketVars, svcVars>>

(* uow.commit() called directly, outside a block *)
Commit ==
    /\ ~inScope
    /\ \E f \in Faults(Len(events)) :
          LET w == commit(World, f)
          IN  /\ Install(w)
              /\ call' = Called("commit", w)
    /\ UNCHANGED <<inScope, scopeId, nextEventId, instances, ticketVars, svcVars>>

(* uow.rollback() called directly after a block, as atomic_operation does *)
Rollback ==
    /\ ~inScope
    /\ \E f \in RollbackFaults :
          LET w == rollback(World, f)
          IN  /\ Install(w)
              /\ call' = Called("rollback", w)
    /\ UNCHANGED <<inScope, scopeId, nextEventId, instances, ticketVars, svcVars>>

Next ==
    \/ NewUnitOfWork
    \/ Enter
    \/ PublishEvent
    \/ ExitNormal
    \/ ExitException
    \/ Commit
    \/ Rollback

Spec == Init /\ [][Next]_vars

(***************************************************************************)
(* InMemoryUnitOfWork, the unit of work of the tests: the same variables   *)
(* hold its fields, published being its _published_events.                 *)
(***************************************************************************)
(* InMemoryUnitOfWork.commit *)
InMemoryUnitOfWork_commit(w) ==
    clear_events([w EXCEPT !.committed = TRUE,
                           !.published = w.published \o w.events])

(* InMemoryUnitOfWork.rollback *)
InMemoryUnitOfWork_rollback(w) ==
    clear_events([w EXCEPT !.rolled_back = TRUE])

(* InMemoryUnitOfWork.reset *)
InMemoryUnitOfWork_reset(w) ==
    clear_events([w EXCEPT !.committed = FALSE, !.rolled_back = FALSE,
                           !.published = <<>>])

(* UnitOfWork.__exit__ of an InMemoryUnitOfWork *)
InMemoryUnitOfWork_exit(w, exception) ==
    IF exception THEN InMemoryUnitOfWork_rollback(w)
    ELSE InMemoryUnitOfWork_commit(w)

(* `with uow:` is entered; _begin_transaction does nothing *)
InMemoryEnter ==
    /\ ~inScope
    /\ scopeId < MaxScopes
    /\ inScope' = TRUE
    /\ scopeId' = scopeId + 1
    /\ call' = [Called("enter", World) EXCEPT !.scope = scopeId + 1]
    /\ Install(World)
    /\ UNCHANGED <<nextEventId, instances, ticketVars, svcVars>>

InMemoryPublishEvent ==
    /\ inScope
    /\ nextEventId <= MaxEvents
    /\ \E a \in AggregateIds :
          LET event == [id |-> nextEventId, aggregate_id |-> a, scope |-> scopeId]
              w == publish_event(World, event)
          IN  /\ Install(w)
              /\ call' = Called("publish_event", w)
    /\ nextEventId' = nextEventId + 1
    /\ UNCHANGED <<inScope, scopeId, instances, ticketVars, svcVars>>

InMemoryExitNormal ==
    /\ inScope
    /\ inScope' = FALSE
    /\ LET w == InMemoryUnitOfWork_exit(World, FALSE)
       IN  /\ Install(w)
           /\ call' = Called("exit_normal", w)
    /\ UNCHANGED <<scopeId, nextEventId, instances, ticketVars, svcVars>>

InMemoryExitException ==
    /\ inScope
    /\ inScope' = FALSE
    /\ LET w == InMemoryUnitOfWork_exit(World, TRUE)
       IN  /\ Install(w)
           /\ call' = [Called("exit_exception", w) EXCEPT !.raised = TRUE]
    /\ UNCHANGED <<scopeId, nextEventId, instances, ticketVars, svcVars>>

(* uow.reset() between two tests *)
InMemoryReset ==
    /\ ~inScope
    /\ LET w == InMemoryUnitOfWork_reset(World)
       IN  /\ Install(w)
           /\ call' = Called("reset", w)
    /\ UNCHANGED <<inScope, scopeId, nextEventId, instances, ticketVars, svcVars>>

NextInMemory ==
    \/ InMemoryEnter
    \/ InMemoryPublishEvent
    \/ InMemoryExitNormal
    \/ InMemoryExitException
    \/ InMemoryReset

(* InMemoryUnitOfWork.__init__ takes no publisher and no store *)
InitInMemory ==
    /\ Init
    /\ ~event_publisher
    /\ ~event_store

SpecInMemory == InitInMemory /\ [][NextInMemory]_vars

InitTicket ==
    /\ Init
    /\ event_publisher
    /\ event_store

SpecTicket == InitTicket /\ [][NextTicket]_vars

(***************************************************************************)
(* One thread invoking the application services.  A mutating service runs  *)
(* on a unit of work just taken from the factory (a service object created *)
(* by the container for this invocation) or on the unit of work of the     *)
(* invocation before (a service object executed again, or services built   *)
(* on one unit of work).                                                   *)
(***************************************************************************)
TituloInputs == {Str(0, 0, 0), Str(1, 2, 1), Str(1, 3, 1), Str(0, 200, 1),
                 Str(0, 201, 0)}

DescricaoInputs == {Str(0, 0, 0), Str(0, 9, 1), Str(1, 10, 0), Str(1, 5000, 0),
                    Str(0, 5001, 0)}

MutatingServices == {"criar", "atribuir", "fechar", "reabrir", "alterar_prioridade"}

ReadServices == {"listar", "obter", "contar"}

(* the unit of work the service object holds *)
ServiceUow(fresh) == IF fresh THEN unit_of_work_factory(World) ELSE World

(* a mutating service was executed: r is the result of its block *)
Executed(op, dto, w0, r) ==
    /\ Install(r.w)
    /\ svc' = [n |-> svc.n + 1, op |-> op, dto |-> dto,
               reused |-> w0.committed \/ w0.rolled_back, entered |-> TRUE,
               raised |-> r.raised, err |-> r.err, steps |-> r.steps,
               ticket_id |-> r.ticket_id, enqueued |-> r.enqueued,
               pubBefore |-> Len(published)]
    /\ log' = IF r.err = NoError
              THEN Append(log, [op |-> op, ticket_id |-> r.ticket_id,
                                scope |-> scopeId + 1,
                                arg |-> IF op = "criar" THEN upper(dto.prioridade)
                                        ELSE dto.arg,
                                reused |-> w0.committed \/ w0.rolled_back])
              ELSE log
    /\ scopeId' = scopeId + 1
    /\ nextEventId' = nextEventId + Len(r.enqueued)
    /\ UNCHANGED <<inScope, instances, call, ticketVars, threads, inMemory>>

(* a read-only service was executed *)
Read(op, dto, err, steps) ==
    /\ svc' = [NoInvocation EXCEPT !.n = svc.n + 1, !.op = op, !.dto = dto,
                                   !.raised = err, !.err = err, !.steps = steps,
                                   !.ticket_id = dto.ticket_id,
                                   !.pubBefore = Len(published)]
    /\ UNCHANGED <<uowVars, ticketVars, log, threads, inMemory>>

CanInvoke ==
    /\ svc.n < MaxInvocations
    /\ nextEventId <= MaxEvents

(* the faults __exit__ can meet after the block b: an EventStore append,   *)
(* the database commit or publish calls fail.  The failures of the         *)
(* rollback and set_autocommit calls are left to Spec.                     *)
ExitFaults(b) ==
    IF b.err # NoError
    THEN {f \in RollbackFaults : ~f.rollback /\ ~f.autocommit}
    ELSE {f \in Faults(Len(b.w.events)) : ~f.rollback /\ ~f.autocommit}

(* CriarTicketService.execute with an input of the given sets *)
CriarTicketFrom(titulos, descricoes, criadores, prioridades) ==
    /\ CanInvoke
    /\ \E id \in TicketIds : id \notin DOMAIN tickets \cup DOMAIN ticketsPending
    /\ \E fresh \in BOOLEAN, titulo \in titulos, descricao \in descricoes,
          criador_id \in criadores, prioridade \in prioridades,
          sf \in SaveFaults :
          LET dto == [NoDto EXCEPT !.titulo = titulo, !.descricao = descricao,
                                   !.criador_id = criador_id,
                                   !.prioridade = prioridade]
              w0 == ServiceUow(fresh)
              b == criar_ticket_body(enter_scope(w0, scopeId + 1), dto,
                                     nextEventId, scopeId + 1, now, sf)
          IN  \E f \in ExitFaults(b) :
                  Executed("criar", dto, w0, with_uow(w0, b, f))

(* a ticket is created from a valid input or one with a short title or an *)
(* unknown priority                                                        *)
CriarTicket ==
    CriarTicketFrom({Str(1, 2, 1), Str(1, 3, 1)}, {Str(1, 10, 0)}, {"u1"},
                    PriorityNames)

(* a ticket is created from any input around the bounds of the fields *)
CriarTicketBoundary ==
    CriarTicketFrom(TituloInputs, DescricaoInputs, Criadores, PriorityNames)

AtribuirTicket ==
    /\ CanInvoke
    /\ \E fresh \in BOOLEAN, ticket_id \in RequestedIds, tecnico_id \in {"", "t1"},
          sf \in RepositoryFaults :
          LET dto == [NoDto EXCEPT !.ticket_id = ticket_id, !.arg = tecnico_id]
              w0 == ServiceUow(fresh)
              b == atribuir_ticket_body(enter_scope(w0, scopeId + 1), dto,
                                        nextEventId, scopeId + 1, now, sf)
          IN  \E f \in ExitFaults(b) :
                  Executed("atribuir", dto, w0, with_uow(w0, b, f))

FecharTicket ==
    /\ CanInvoke
    /\ \E fresh \in BOOLEAN, ticket_id \in RequestedIds,
          sf \in RepositoryFaults :
          LET dto == [NoDto EXCEPT !.ticket_id = ticket_id]
              w0 == ServiceUow(fresh)
              b == fechar_ticket_body(enter_scope(w0, scopeId + 1), dto,
                                      nextEventId, scopeId + 1, now, sf)
          IN  \E f \in ExitFaults(b) :
                  Executed("fechar", dto, w0, with_uow(w0, b, f))

ReabrirTicket ==
    /\ CanInvoke
    /\ \E fresh \in BOOLEAN, ticket_id \in RequestedIds,
          sf \in RepositoryFaults :
          LET dto == [NoDto EXCEPT !.ticket_id = ticket_id]
              w0 == ServiceUow(fresh)
              b == reabrir_ticket_body(enter_scope(w0, scopeId + 1), dto,
                                       nextEventId, scopeId + 1, now, sf)
          IN  \E f \in ExitFaults(b) :
                  Executed("reabrir", dto, w0, with_uow(w0, b, f))

AlterarPrioridadeTicket ==
    /\ CanInvoke
    /\ \E fresh \in BOOLEAN, ticket_id \in RequestedIds,
          nova \in {"CRITICA", "URGENTE"},
          sf \in RepositoryFaults :
          LET dto == [NoDto EXCEPT !.ticket_id = ticket_id, !.arg = nova]
              w0 == ServiceUow(fresh)
              b == alterar_prioridade_body(enter_scope(w0, scopeId + 1), dto,
                                           nextEventId, scopeId + 1, now, sf)
          IN  \E f \in ExitFaults(b) :
                  Executed("alterar_prioridade", dto, w0, with_uow(w0, b, f))

(* ObterTicketService.execute *)
ObterTicket ==
    /\ svc.n < MaxInvocations
    /\ \E ticket_id \in RequestedIds :
          Read("obter", [NoDto EXCEPT !.ticket_id = ticket_id],
               IF ~get_by_id(World, ticket_id).exists THEN EntityNotFoundError
               ELSE NoError,
               <<"get_by_id">>)

(* ListarTicketsService.execute: the status filter is the name of a status *)
ListarTickets ==
    /\ svc.n < MaxInvocations
    /\ \E status \in {"", "FECHADO", "INVALIDO"} :
          Read("listar", [NoDto EXCEPT !.arg = status],
               IF status \notin TicketStatus \cup {""} THEN ValidationError("status")
               ELSE NoError,
               IF status \notin TicketStatus \cup {""} THEN <<>> ELSE <<"list">>)

(* ContarTicketsService.execute: count(), then count_by_status(status),    *)
(* which DjangoTicketRepository defines without the status parameter       *)
ContarTickets ==
    /\ svc.n < MaxInvocations
    /\ Read("contar", NoDto, TypeError, <<"count", "count_by_status">>)

(* the instants the services run at: the creation, the deadline of an ALTA *)
(* ticket created then and the deadline of a MEDIA one, which is after the *)
(* former                                                                  *)
ServiceTimePoints == {0, sla_horas("ALTA"), sla_horas("MEDIA")}

(* time passes between two invocations *)
TickService ==
    /\ \E t \in ServiceTimePoints : t > now /\ now' = t
    /\ UNCHANGED <<ticket, opResult, uowVars, svcVars>>

NextService ==
    \/ TickService
    \/ CriarTicket
    \/ AtribuirTicket
    \/ FecharTicket
    \/ ReabrirTicket
    \/ AlterarPrioridadeTicket
    \/ ObterTicket
    \/ ListarTickets
    \/ ContarTickets

(* the container gives every unit of work the publisher and the store *)
InitService ==
    /\ Init
    /\ event_publisher
    /\ event_store

SpecService == InitService /\ [][NextService]_vars

(* CriarTicketService alone, over the inputs around the bounds *)
SpecCriar == InitService /\ [][CriarTicketBoundary]_vars

(***************************************************************************)
(* Two service invocations running at once, each in its own thread with    *)
(* its own DjangoUnitOfWork and its own database connection.  A thread     *)
(* sees the committed rows and the rows of its own open transaction; the   *)
(* database makes the save of a row wait while another open transaction    *)
(* has written that row.  The block of a service is run in two steps: the  *)
(* get_by_id, then the rest on the entity that was loaded.                 *)
(***************************************************************************)
Threads == {1, 2}

(* the invocations the threads make, on tickets that exist *)
ConcurrentInvocations ==
    {[op |-> op, ticket_id |-> id, arg |-> ""] :
         op \in {"fechar", "reabrir"}, id \in AggregateIds}
    \cup {[op |-> "atribuir", ticket_id |-> id, arg |-> "t2"] : id \in AggregateIds}
    \cup {[op |-> "alterar_prioridade", ticket_id |-> id, arg |-> "CRITICA"] :
              id \in AggregateIds}

(* the tickets stored before the invocations: created with priority ALTA   *)
(* and assigned to t1                                                      *)
StoredAtStart ==
    [id \in AggregateIds |->
        atribuir_a(criar(Str(0, 3, 0), Str(0, 10, 0), "u1", "ALTA", <<>>, 0, 0).ticket,
                   "t1", 0).ticket]

NoFaults ==
    [append |-> 0, commit |-> FALSE, publish |-> {}, rollback |-> FALSE,
     autocommit |-> FALSE]

NoRepositoryFault == [get |-> FALSE, save |-> FALSE]

(* the unit of work and the connection of a thread: what is shared with    *)
(* the other thread is left out                                            *)
Local(w) ==
    [w EXCEPT !.tickets = <<>>, !.eventStore = <<>>, !.published = <<>>,
              !.committedScopes = {}, !.rolledBackScopes = {}]

(* the world thread t acts on, with the publisher of its own only *)
View_private_publisher(t) ==
    [threads[t].w EXCEPT !.tickets = tickets, !.eventStore = eventStore,
                         !.committedScopes = committedScopes,
                         !.rolledBackScopes = rolledBackScopes]

(* the world thread t acts on: its unit of work and connection, the        *)
(* committed rows, the publisher                                           *)
View(t) ==
    [threads[t].w EXCEPT !.tickets = tickets, !.eventStore = eventStore,
                         !.published = published,
                         !.committedScopes = committedScopes,
                         !.rolledBackScopes = rolledBackScopes]

(* the world of thread t reading the ticket again where the block uses it *)
ReloadedView(t) == View(t)

(* the world of thread t in which its ticket is the entity it has loaded *)
LoadedView(t) ==
    [View(t) EXCEPT !.tickets =
        IF threads[t].ticket.exists
        THEN Put(@, threads[t].inv.ticket_id, threads[t].ticket)
        ELSE @]

(* the block of the service of an invocation *)
ServiceBody(inv, w, event_id, scope, clock) ==
    LET dto == [NoDto EXCEPT !.ticket_id = inv.ticket_id, !.arg = inv.arg]
    IN  CASE inv.op = "atribuir" ->
                 atribuir_ticket_body(w, dto, event_id, scope, clock, NoRepositoryFault)
          [] inv.op = "fechar" ->
                 fechar_ticket_body(w, dto, event_id, scope, clock, NoRepositoryFault)
          [] inv.op = "reabrir" ->
                 reabrir_ticket_body(w, dto, event_id, scope, clock, NoRepositoryFault)
          [] inv.op = "alterar_prioridade" ->
                 alterar_prioridade_body(w, dto, event_id, scope, clock,
                                         NoRepositoryFault)

(* no other open transaction has written the row of the ticket *)
RowFree(t, ticket_id) ==
    \A u \in Threads \ {t} : ticket_id \notin DOMAIN threads[u].w.ticketsPending

(* thread t has made a step that left its world as w *)
Stepped(t, pc, w) ==
    /\ threads' = [threads EXCEPT ![t].pc = pc, ![t].w = Local(w)]
    /\ tickets' = w.tickets
    /\ eventStore' = w.eventStore
    /\ published' = w.published
    /\ committedScopes' = w.committedScopes
    /\ rolledBackScopes' = w.rolledBackScopes

ConcurrentFrame ==
    UNCHANGED <<events, event_publisher, event_store, transaction_started, committed,
                rolled_back, sequence_counters, autocommit, pending, ticketsPending,
                inScope, scopeId, txScopes, instances, call, ticketVars, svc, log,
                inMemory>>

(* `with self.uow:` is entered in thread t *)
ThreadEnters(t) ==
    /\ threads[t].pc = "start"
    /\ Stepped(t, "entered", enter_scope(View(t), t))
    /\ UNCHANGED nextEventId
    /\ ConcurrentFrame

(* ticket_repo.get_by_id in thread t *)
ThreadLoads(t) ==
    /\ threads[t].pc = "entered"
    /\ threads' = [threads EXCEPT
                      ![t].pc = "loaded",
                      ![t].ticket = get_by_id(View(t), threads[t].inv.ticket_id)]
    /\ UNCHANGED <<tickets, eventStore, published, committedScopes,
                   rolledBackScopes, nextEventId>>
    /\ ConcurrentFrame

(* the rest of the block in thread t: the operation of the entity, save    *)
(* and publish_event, or the exception that ends the block                 *)
ThreadMutates(t) ==
    /\ threads[t].pc = "loaded"
    /\ LET b == ServiceBody(threads[t].inv, LoadedView(t), nextEventId, t, now)
       IN  IF b.err # NoError
           THEN /\ threads' = [threads EXCEPT ![t].pc = "raised", ![t].err = b.err]
                /\ UNCHANGED <<tickets, eventStore, published, committedScopes,
                               rolledBackScopes, nextEventId>>
           ELSE /\ RowFree(t, threads[t].inv.ticket_id)
                /\ threads' = [threads EXCEPT
                                  ![t].pc = "saved",
                                  ![t].w = Local(b.w),
                                  ![t].event = nextEventId]
                /\ nextEventId' = nextEventId + 1
                /\ UNCHANGED <<tickets, eventStore, published, committedScopes,
                               rolledBackScopes>>
    /\ ConcurrentFrame

(* __exit__ in thread t: commit after a block that ended normally,         *)
(* rollback after one that raised                                          *)
ThreadExits(t) ==
    /\ threads[t].pc \in {"saved", "raised"}
    /\ Stepped(t, "done", exit(View(t), threads[t].pc = "raised", NoFaults))
    /\ UNCHANGED nextEventId
    /\ ConcurrentFrame

NextConcurrent ==
    \/ \E t \in Threads : ThreadEnters(t)
    \/ \E t \in Threads : ThreadLoads(t)
    \/ \E t \in Threads : ThreadMutates(t)
    \/ \E t \in Threads : ThreadExits(t)

(* the tickets are stored, every thread has a unit of work from the        *)
(* factory and an invocation to make                                       *)
InitConcurrent ==
    /\ events = <<>>
    /\ event_publisher = TRUE
    /\ event_store = TRUE
    /\ transaction_started = FALSE
    /\ committed = FALSE
    /\ rolled_back = FALSE
    /\ sequence_counters = <<>>
    /\ autocommit = TRUE
    /\ pending = <<>>
    /\ eventStore = <<>>
    /\ ticketsPending = <<>>
    /\ tickets = StoredAtStart
    /\ published = <<>>
    /\ inScope = FALSE
    /\ scopeId = 0
    /\ txScopes = {}
    /\ committedScopes = {}
    /\ rolledBackScopes = {}
    /\ nextEventId = 1
    /\ instances = 1
    /\ call = Called("none", World)
    /\ InitTicketVars
    /\ svc = NoInvocation
    /\ log = <<>>
    /\ inMemory = InMemoryUnitOfWork_init
    /\ \E invs \in [Threads -> ConcurrentInvocations] :
          threads = [t \in Threads |->
                        [pc |-> "start", inv |-> invs[t], ticket |-> NoTicket,
                         err |-> NoError, event |-> 0,
                         w |-> Local(unit_of_work_factory(World))]]

SpecConcurrent == InitConcurrent /\ [][NextConcurrent]_vars

(***************************************************************************)
(* A DjangoUnitOfWork with a publisher that never fails, on a database     *)
(* that never fails, and an InMemoryUnitOfWork, both given the same calls: *)
(* the Django instance is in the variables of the unit of work, the        *)
(* in-memory one in inMemory.                                              *)
(***************************************************************************)
BothEnter ==
    /\ ~inScope
    /\ scopeId < MaxScopes
    /\ inScope' = TRUE
    /\ scopeId' = scopeId + 1
    /\ LET w == enter(World)
       IN  /\ Install([w EXCEPT !.txScopes = w.txScopes \cup {scopeId + 1}])
           /\ call' = [Called("enter", w) EXCEPT !.scope = scopeId + 1]
    /\ inMemory' = inMemory
    /\ UNCHANGED <<nextEventId, instances, ticketVars, svc, log, threads>>

BothPublishEvent ==
    /\ inScope
    /\ nextEventId <= MaxEvents
    /\ \E a \in AggregateIds :
          LET event == [id |-> nextEventId, aggregate_id |-> a, scope |-> scopeId]
              w == publish_event(World, event)
          IN  /\ Install(w)
              /\ call' = Called("publish_event", w)
              /\ inMemory' = publish_event(inMemory, event)
    /\ nextEventId' = nextEventId + 1
    /\ UNCHANGED <<inScope, scopeId, instances, ticketVars, svc, log, threads>>

BothExitNormal ==
    /\ inScope
    /\ inScope' = FALSE
    /\ LET w == exit(World, FALSE, NoFaults)
       IN  /\ Install(w)
           /\ call' = Called("exit_normal", w)
    /\ inMemory' = InMemoryUnitOfWork_exit(inMemory, FALSE)
    /\ UNCHANGED <<scopeId, nextEventId, instances, ticketVars, svc, log, threads>>

BothExitException ==
    /\ inScope
    /\ inScope' = FALSE
    /\ LET w == exit(World, TRUE, NoFaults)
       IN  /\ Install(w)
           /\ call' = [Called("exit_exception", w) EXCEPT !.raised = TRUE]
    /\ inMemory' = InMemoryUnitOfWork_exit(inMemory, TRUE)
    /\ UNCHANGED <<scopeId, nextEventId, instances, ticketVars, svc, log, threads>>

NextBoth ==
    \/ BothEnter
    \/ BothPublishEvent
    \/ BothExitNormal
    \/ BothExitException

InitBoth ==
    /\ Init
    /\ event_publisher

SpecBoth == InitBoth /\ [][NextBoth]_vars

(***************************************************************************)
(* Properties of the unit of work.                                         *)
(***************************************************************************)
Hit(kind) == \E h \in call.hit : h[1] = kind

ExitCalls == {"exit_normal", "exit_exception"}

CommitCalls == {"exit_normal", "commit"}

FinalizeCalls == {"exit_normal", "exit_exception", "commit", "rollback"}

(* the events of a sequence that were enqueued in scope s, in order *)
OfScope(evs, s) == SelectSeq(evs, LAMBDA e : e.scope = s)

(* the EventStore rows, committed or written in the open transaction *)
StoreRows == eventStore \o pending

(* C1: every event handed to the EventPublisher was enqueued in a scope    *)
(* whose database transaction has been committed, and in no scope whose    *)
(* transaction was rolled back.                                            *)
C1_PublishedOnlyAfterCommit ==
    \A i \in DOMAIN published :
        /\ published[i].scope \in committedScopes
        /\ published[i].scope \notin rolledBackScopes

(* C1 witness: events were published and another scope was rolled back     *)
(* with events in its buffer                                               *)
C1_Witness ==
    /\ published # <<>>
    /\ call.op = "exit_exception"
    /\ call.pre.events # <<>>
    /\ call.scope \in rolledBackScopes

(* C2 as claimed: after a scope with enqueued events exits by an exception *)
(* none of its events is published or in the EventStore, the buffer is     *)
(* empty and the unit of work is rolled back.                              *)
C2_ExceptionDiscardsEvents ==
    (call.op = "exit_exception" /\ OfScope(call.pre.events, call.scope) # <<>>)
    => /\ OfScope(published, call.scope) = <<>>
       /\ \A i \in DOMAIN StoreRows : StoreRows[i].event.scope # call.scope
       /\ events = <<>>
       /\ rolled_back
       /\ ~committed

(* C3 as claimed: after a scope exits normally, the events enqueued in it  *)
(* have been handed to the EventPublisher exactly once each, in enqueue    *)
(* order.                                                                  *)
C3_NormalExitPublishesInOrder ==
    (call.op = "exit_normal" /\ ~call.raised /\ event_publisher)
    => OfScope(published, call.scope) = OfScope(call.pre.events, call.scope)

C5_PublishFailureKeepsCommit ==
    (call.op \in CommitCalls /\ Hit("publish"))
    => /\ committed
       /\ ~rolled_back
       /\ ~call.raised
       /\ call.scope \in committedScopes
       /\ call.scope \notin rolledBackScopes
       /\ pending = <<>>
       /\ event_store =>
             \A i \in DOMAIN call.pre.events :
                 \E j \in DOMAIN eventStore :
                     eventStore[j].event = call.pre.events[i]
       /\ published = call.pre.published \o call.pre.events

(* C5 witness: the first of three publish calls failed *)
C5_Witness ==
    /\ call.op = "exit_normal"
    /\ Len(call.pre.events) = 3
    /\ call.hit = {<<"publish", call.pre.events[1].id>>}

C7_FinalizedCallsAreNoOps ==
    (call.op \in FinalizeCalls /\ (call.pre.committed \/ call.pre.rolled_back))
    => /\ World = call.pre
       /\ ~call.raised \/ call.op = "exit_exception"

(* C7 witness: a scope was exited normally on a rolled-back unit of work   *)
(* with an event in its buffer and a transaction open                      *)
C7_Witness ==
    /\ call.op = "exit_normal"
    /\ call.pre.rolled_back
    /\ call.pre.events # <<>>
    /\ call.pre.transaction_started

(* C8 as claimed: after any scope exits normally, no call having failed,   *)
(* the transaction opened on entry is committed and the events enqueued in *)
(* the scope are published.                                                *)
C8_EveryNormalScopeCommits ==
    (call.op = "exit_normal" /\ call.hit = {})
    => /\ call.scope \in committedScopes
       /\ pending = <<>>
       /\ event_publisher =>
             \A i \in DOMAIN call.pre.events :
                 call.pre.events[i].scope = call.scope
                 => \E j \in DOMAIN published : published[j] = call.pre.events[i]

(* C35 as claimed: after any scope has exited, normally or by an           *)
(* exception, set_autocommit not having failed, the connection is back in  *)
(* autocommit mode and the transaction-started flag is off.                *)
C35_NoTransactionLeftOpen ==
    (call.op \in ExitCalls /\ ~Hit("autocommit"))
    => /\ autocommit
       /\ ~transaction_started

(***************************************************************************)
(* Properties of the ticket entity.                                        *)
(***************************************************************************)
(* the transition table of the specification *)
AllowedTransitions ==
    {<<"ABERTO", "EM_PROGRESSO">>, <<"ABERTO", "AGUARDANDO_CLIENTE">>,
     <<"EM_PROGRESSO", "AGUARDANDO_CLIENTE">>, <<"EM_PROGRESSO", "RESOLVIDO">>,
     <<"AGUARDANDO_CLIENTE", "EM_PROGRESSO">>, <<"AGUARDANDO_CLIENTE", "RESOLVIDO">>,
     <<"RESOLVIDO", "FECHADO">>, <<"RESOLVIDO", "EM_PROGRESSO">>,
     <<"FECHADO", "ABERTO">>}

(* C9: alterar_status succeeds exactly for the pairs of the table and then *)
(* sets the status; for every other pair it raises the invalid-transition  *)
(* BusinessRuleViolationError and leaves the status as it was.             *)
C9_TransitionTable ==
    opResult.op = "alterar_status"
    => IF <<opResult.from, opResult.arg>> \in AllowedTransitions
       THEN opResult.err = NoError /\ ticket.status = opResult.arg
       ELSE /\ opResult.err = BusinessRuleViolationError("transicao_status_invalida")
            /\ ticket.status = opResult.from

(* C9 witness: a self-transition was refused *)
C9_Witness ==
    /\ opResult.op = "alterar_status"
    /\ opResult.from = "RESOLVIDO"
    /\ opResult.arg = "RESOLVIDO"
    /\ opResult.err # NoError

(* C10 as claimed: whenever an operation moves the status to FECHADO the   *)
(* ticket has an assignee.                                                 *)
C10_ClosedOnlyWhenAssigned ==
    (ticket.exists /\ opResult.err = NoError /\ opResult.from # "FECHADO"
        /\ opResult.op # "tick" /\ ticket.status = "FECHADO")
    => ticket.atribuido_a_id # None

(* C11: fechar on a ticket without assignee raises the assignment-required *)
(* BusinessRuleViolationError whatever the status, and leaves every field  *)
(* of the ticket as it was.                                                *)
C11_CloseUnassignedFails ==
    [][(opResult'.op = "fechar" /\ ticket.atribuido_a_id = None)
       => /\ opResult'.err =
                 BusinessRuleViolationError("atribuicao_obrigatoria_para_fechar")
          /\ ticket' = ticket]_vars

(* C11 witness: fechar was refused on an unassigned ticket that is already *)
(* FECHADO, the assignee being checked before the status                   *)
C11_Witness ==
    /\ opResult.op = "fechar"
    /\ opResult.err = BusinessRuleViolationError("atribuicao_obrigatoria_para_fechar")
    /\ ticket.status = "FECHADO"
    /\ ticket.atribuido_a_id = None

(* C12: reabrir succeeds exactly on a FECHADO ticket and then leaves it    *)
(* ABERTO without assignee; on any other status it raises a                *)
(* BusinessRuleViolationError and changes nothing.                         *)
C12_ReopenOnlyFromClosed ==
    [][opResult'.op = "reabrir"
       => IF ticket.status = "FECHADO"
          THEN /\ opResult'.err = NoError
               /\ ticket'.status = "ABERTO"
               /\ ticket'.atribuido_a_id = None
          ELSE /\ opResult'.err.kind = "BusinessRuleViolationError"
               /\ ticket' = ticket]_vars

(* C12 witness: a closed ticket was reopened *)
C12_Witness ==
    /\ opResult.op = "reabrir"
    /\ opResult.err = NoError
    /\ opResult.from = "FECHADO"
    /\ ticket.status = "ABERTO"

(* C13: atribuir_a with an empty technician raises ValidationError in      *)
(* every status; with a technician it raises the closed-is-immutable       *)
(* BusinessRuleViolationError on a FECHADO ticket and otherwise sets the   *)
(* assignee and the status EM_PROGRESSO.                                   *)
C13_AssignForcesInProgress ==
    opResult.op = "atribuir_a"
    => IF opResult.arg = ""
       THEN opResult.err = ValidationError("tecnico_id")
       ELSE IF opResult.from = "FECHADO"
            THEN opResult.err = BusinessRuleViolationError("ticket_fechado_imutavel")
       ELSE /\ opResult.err = NoError
            /\ ticket.atribuido_a_id = opResult.arg
            /\ ticket.status = "EM_PROGRESSO"

(* C13 witness: a RESOLVIDO ticket was assigned and is EM_PROGRESSO *)
C13_Witness ==
    /\ opResult.op = "atribuir_a"
    /\ opResult.from = "RESOLVIDO"
    /\ opResult.err = NoError
    /\ ticket.status = "EM_PROGRESSO"

(* C14: after every operation sla_prazo is criado_em plus the SLA hours of *)
(* the current priority.                                                   *)
C14_DeadlineFromCreation ==
    ticket.exists
    => ticket.sla_prazo = Time(ticket.criado_em + sla_horas(ticket.prioridade))

(* C14 witness: the priority was changed after the creation instant *)
C14_Witness ==
    /\ opResult.op = "alterar_prioridade"
    /\ opResult.err = NoError
    /\ now > ticket.criado_em
    /\ ticket.atualizado_em > ticket.criado_em
    /\ ticket.prioridade = "CRITICA"

(* C15: esta_atrasado is true exactly when the deadline is set, the status *)
(* is not FECHADO and the clock is strictly past the deadline; it is false *)
(* at creation and for every FECHADO ticket.                               *)
C15_OverdueStrictlyAfterDeadline ==
    ticket.exists
    => /\ esta_atrasado(ticket, now)
            <=> (/\ ticket.sla_prazo # NoTime
                 /\ ticket.status # "FECHADO"
                 /\ now > hours(ticket.sla_prazo))
       /\ opResult.op = "criar" => ~esta_atrasado(ticket, now)
       /\ ticket.status = "FECHADO" => ~esta_atrasado(ticket, now)
       /\ (ticket.status # "FECHADO"
              /\ now > ticket.criado_em + sla_horas(ticket.prioridade))
          => esta_atrasado(ticket, now)

(* C15 witness: an open ticket at the instant of its deadline *)
C15_Witness ==
    /\ ticket.exists
    /\ ticket.status # "FECHADO"
    /\ now = hours(ticket.sla_prazo)

(* C20 as claimed: applied to a FECHADO ticket, atribuir_a, fechar,        *)
(* alterar_prioridade, adicionar_tag and remover_tag leave every field of  *)
(* the ticket as it was.                                                   *)
C20_ClosedTicketImmutable ==
    [][(/\ opResult'.op \in {"atribuir_a", "fechar", "alterar_prioridade",
                             "adicionar_tag", "remover_tag"}
        /\ ticket.status = "FECHADO")
       => ticket' = ticket]_vars

(* C33: a ticket whose status is ABERTO has no assignee. *)
C33_OpenTicketUnassigned ==
    (ticket.exists /\ ticket.status = "ABERTO") => ticket.atribuido_a_id = None

(* C34: from a successful reabrir until the next successful atribuir_a the  *)
(* ticket has no assignee, and every fechar raises the assignment-required *)
(* BusinessRuleViolationError and leaves the ticket as it was.             *)
C34_CloseFailsUntilReassigned ==
    /\ [](opResult.reopened
          => /\ ticket.atribuido_a_id = None
             /\ opResult.op = "fechar"
                => opResult.err
                     = BusinessRuleViolationError("atribuicao_obrigatoria_para_fechar"))
    /\ [][(opResult.reopened /\ opResult'.op = "fechar") => ticket' = ticket]_vars

(* C34 witness: a fechar has failed on a reopened ticket that went on to    *)
(* EM_PROGRESSO by alterar_status                                           *)
C34_Witness ==
    /\ opResult.reopened
    /\ opResult.op = "fechar"
    /\ opResult.from = "EM_PROGRESSO"
    /\ opResult.err = BusinessRuleViolationError("atribuicao_obrigatoria_para_fechar")
    /\ ticket.status = "EM_PROGRESSO"

(***************************************************************************)
(* Properties of the application services.                                 *)
(***************************************************************************)
(* the class of the event each mutating service publishes *)
EventTypeOf(op) ==
    CASE op = "criar" -> "TicketCriadoEvent"
      [] op = "atribuir" -> "TicketAtribuidoEvent"
      [] op = "fechar" -> "TicketFechadoEvent"
      [] op = "reabrir" -> "TicketReabertoEvent"
      [] op = "alterar_prioridade" -> "TicketPrioridadeAlteradaEvent"

(* the successful invocations were: create with priority ALTA, assign to   *)
(* t1, close, on one ticket                                                *)
LifecycleRan ==
    /\ Len(log) = 3
    /\ log[1].op = "criar" /\ log[1].arg = "ALTA"
    /\ log[2].op = "atribuir" /\ log[2].arg = "t1"
    /\ log[3].op = "fechar"
    /\ log[2].ticket_id = log[1].ticket_id
    /\ log[3].ticket_id = log[1].ticket_id

LifecycleDone ==
    /\ log[1].ticket_id \in DOMAIN tickets
    /\ tickets[log[1].ticket_id].status = "FECHADO"
    /\ tickets[log[1].ticket_id].atribuido_a_id = "t1"
    /\ [i \in 1..Len(published) |-> published[i].type]
           = <<"TicketCriadoEvent", "TicketAtribuidoEvent", "TicketFechadoEvent">>

(* C16 as claimed: after CriarTicket (priority ALTA), AtribuirTicket (t1)  *)
(* and FecharTicket have succeeded on one ticket, the stored ticket is     *)
(* FECHADO with assignee t1 and exactly the three events Criado,           *)
(* Atribuido, Fechado have reached the EventPublisher, in that order.      *)
C16_LifecyclePublishesThree == LifecycleRan => LifecycleDone

(* C17 as claimed: when a mutating service fails, its unit of work is      *)
(* rolled back with nothing left in the buffer or in the transaction, the  *)
(* exception raised in the block is the one the caller gets, and nothing   *)
(* was published by the invocation; FecharTicket on an unassigned ticket   *)
(* fails with the assignment-required BusinessRuleViolationError.          *)
C17_FailureRollsBack ==
    (svc.op \in MutatingServices /\ svc.err # NoError)
    => /\ rolled_back
       /\ ~committed
       /\ ~transaction_started
       /\ events = <<>>
       /\ ticketsPending = <<>>
       /\ pending = <<>>
       /\ svc.raised # NoError => svc.err = svc.raised
       /\ Len(published) = svc.pubBefore
       /\ (/\ svc.op = "fechar"
           /\ svc.raised.kind = "BusinessRuleViolationError"
           /\ get_by_id(World, svc.ticket_id).exists
           /\ get_by_id(World, svc.ticket_id).atribuido_a_id = None)
          => svc.err = BusinessRuleViolationError("atribuicao_obrigatoria_para_fechar")

(* the input of CriarTicket is valid: title and description within their   *)
(* bounds after trimming, a creator given                                  *)
TituloValido(dto) ==
    /\ len(strip(dto.titulo)) >= 3
    /\ len(strip(dto.titulo)) <= 200

DescricaoValida(dto) ==
    /\ len(strip(dto.descricao)) >= 10
    /\ len(strip(dto.descricao)) <= 5000

(* C18: CriarTicket with a priority of the enum constructs the ticket      *)
(* exactly when the title has 3 to 200 characters and the description 10   *)
(* to 5000 after trimming and the creator is not empty; otherwise it       *)
(* raises the ValidationError of the first offending field in the order    *)
(* titulo, descricao, criador_id, saves nothing and enqueues no event.     *)
C18_CreateValidatesInOrder ==
    (svc.op = "criar" /\ upper(svc.dto.prioridade) \in TicketPriority)
    => IF TituloValido(svc.dto) /\ DescricaoValida(svc.dto)
             /\ svc.dto.criador_id # ""
       THEN /\ svc.raised.kind # "ValidationError"
            /\ svc.steps[1] = "save"
       ELSE /\ svc.raised = svc.err
            /\ svc.err = ValidationError(
                   IF ~TituloValido(svc.dto) THEN "titulo"
                   ELSE IF ~DescricaoValida(svc.dto) THEN "descricao"
                   ELSE "criador_id")
            /\ svc.steps = <<>>
            /\ svc.enqueued = <<>>
            /\ events = <<>>
            /\ tickets = <<>>
            /\ ticketsPending = <<>>

(* C18 witness: a title too long and no description: the title is named *)
C18_Witness ==
    /\ svc.op = "criar"
    /\ svc.dto.titulo = Str(0, 201, 0)
    /\ svc.dto.descricao = Str(0, 0, 0)
    /\ svc.err = ValidationError("titulo")

(* C19: a mutating service that succeeds has enqueued exactly one event,   *)
(* of the class of the service and with the id of its ticket, after the    *)
(* save; a read-only service opens no unit of work, enqueues nothing and   *)
(* leaves the unit of work, the connection and the stored tickets as they  *)
(* were.                                                                   *)
C19_OneEventPerMutation ==
    [][svc'.n # svc.n
       => /\ (svc'.op \in MutatingServices /\ svc'.err = NoError)
             => /\ Len(svc'.enqueued) = 1
                /\ svc'.enqueued[1].type = EventTypeOf(svc'.op)
                /\ svc'.enqueued[1].aggregate_id = svc'.ticket_id
                /\ Len(SelectSeq(svc'.steps, LAMBDA c : c = "publish_event")) = 1
                /\ svc'.steps[Len(svc'.steps)] = "publish_event"
                /\ svc'.steps[Len(svc'.steps) - 1] = "save"
          /\ svc'.op \in ReadServices
             => /\ ~svc'.entered
                /\ svc'.enqueued = <<>>
                /\ UNCHANGED <<uowVars, log>>]_vars

(* C19 witness: FecharTicket succeeded and enqueued its event *)
C19_Witness ==
    /\ svc.op = "fechar"
    /\ svc.err = NoError
    /\ Len(svc.enqueued) = 1
    /\ svc.enqueued[1].type = "TicketFechadoEvent"

(***************************************************************************)
(* Properties of the tags, the failed operations and the timestamps of the *)
(* ticket entity.                                                          *)
(***************************************************************************)
NoDuplicates(list) ==
    \A i, j \in DOMAIN list : list[i] = list[j] => i = j

Normalized(list) == \A i \in DOMAIN list : list[i] = strip_lower(list[i])

(* C21 as claimed: the tags of a ticket never hold a tag twice and every   *)
(* tag is trimmed and lower-cased, whatever list the ticket was created    *)
(* with; adicionar_tag of a tag already there and remover_tag of a tag not *)
(* there leave the tags as they were.                                      *)
C21_TagsNormalizedNoDuplicates ==
    /\ [](ticket.exists => NoDuplicates(ticket.tags) /\ Normalized(ticket.tags))
    /\ [][/\ (opResult'.op = "adicionar_tag"
                 /\ Contains(ticket.tags, strip_lower(opResult'.tag)))
             => ticket'.tags = ticket.tags
          /\ (opResult'.op = "remover_tag"
                 /\ ~Contains(ticket.tags, strip_lower(opResult'.tag)))
             => ticket'.tags = ticket.tags]_vars

(* C29: atribuir_a, alterar_status, fechar, reabrir and alterar_prioridade *)
(* that raise leave every field of the ticket, atualizado_em included, as  *)
(* it was.                                                                 *)
C29_FailedOperationChangesNothing ==
    [][(/\ opResult'.op \in {"atribuir_a", "alterar_status", "fechar", "reabrir",
                             "alterar_prioridade"}
        /\ opResult'.err # NoError)
       => ticket' = ticket]_vars

(* C29 witness: a transition was refused at a later hour than the last     *)
(* change of the ticket                                                    *)
C29_Witness ==
    /\ opResult.op = "alterar_status"
    /\ opResult.err = BusinessRuleViolationError("transicao_status_invalida")
    /\ ticket.atualizado_em < now

(* C30 as claimed: a new ticket has criado_em = atualizado_em; every       *)
(* operation that succeeds (for the tags: that changes them) sets          *)
(* atualizado_em to the current time; atualizado_em never decreases and is *)
(* never before criado_em; criado_em and criador_id never change.          *)
C30_TimestampsOrdered ==
    /\ []((opResult.op = "criar" /\ ticket.exists)
             => ticket.criado_em = ticket.atualizado_em)
    /\ [](ticket.exists => ticket.criado_em <= ticket.atualizado_em)
    /\ [][(ticket.exists /\ ticket'.exists)
          => /\ ticket'.criado_em = ticket.criado_em
             /\ ticket'.criador_id = ticket.criador_id
             /\ ticket'.atualizado_em >= ticket.atualizado_em
             /\ (/\ opResult'.op \in {"atribuir_a", "alterar_status", "fechar",
                                      "reabrir", "alterar_prioridade"}
                 /\ opResult'.err = NoError)
                => ticket'.atualizado_em = now'
             /\ ticket'.tags # ticket.tags => ticket'.atualizado_em = now']_vars

(***************************************************************************)
(* Properties of the event FecharTicket publishes.                         *)
(***************************************************************************)
(* C28: the dentro_sla of the TicketFechadoEvent of a FecharTicket that    *)
(* succeeds is TRUE exactly when the time of the call is not after the     *)
(* sla_prazo of the ticket as it was loaded.                               *)
C28_WithinSlaFlag ==
    [][(svc'.n # svc.n /\ svc'.op = "fechar" /\ svc'.err = NoError)
       => svc'.enqueued[1].data.dentro_sla
              = ~(now > hours(get_by_id(World, svc'.ticket_id).sla_prazo))]_vars

(* C28 witness: a ticket was closed after its deadline, with the flag FALSE *)
C28_Witness ==
    /\ svc.op = "fechar"
    /\ svc.err = NoError
    /\ svc.enqueued[1].data.dentro_sla = FALSE
    /\ get_by_id(World, svc.ticket_id).exists
    /\ now > hours(get_by_id(World, svc.ticket_id).sla_prazo)

(***************************************************************************)
(* Properties of the flags of the units of work.                           *)
(***************************************************************************)
(* C24 as claimed: after a scope that exits normally the unit of work is   *)
(* committed and not rolled back, after a scope that exits by an exception *)
(* it is rolled back and not committed, and it is never both.              *)
C24_FlagsAfterScope ==
    /\ (call.op = "exit_normal" /\ ~call.raised) => (committed /\ ~rolled_back)
    /\ call.op = "exit_exception" => (rolled_back /\ ~committed)
    /\ ~(committed /\ rolled_back)

(***************************************************************************)
(* Properties of the steps of DjangoUnitOfWork.commit.                     *)
(***************************************************************************)
(* what a commit call leaves when its steps ran in the order append,       *)
(* database commit, publish: a failed append or database commit has        *)
(* published nothing and committed nothing; a commit that raised nothing   *)
(* has the row of every buffered event in the committed EventStore and has *)
(* left no new row in the open transaction; the buffer is empty            *)
CommitStepsInOrder ==
    /\ (Hit("append") \/ Hit("commit"))
       => /\ published = call.pre.published
          /\ eventStore = call.pre.eventStore
          /\ call.scope \notin committedScopes
    /\ (~call.raised /\ event_store)
       => /\ \A i \in DOMAIN call.pre.events :
                 \E j \in DOMAIN eventStore :
                     /\ j > Len(call.pre.eventStore)
                     /\ eventStore[j].event = call.pre.events[i]
          /\ pending = <<>> \/ pending = call.pre.pending
    /\ (~call.raised /\ event_publisher)
       => published = call.pre.published \o call.pre.events
    /\ events = <<>>

(* the EventStore gets rows only in a commit call *)
AppendOnlyInCommit ==
    Len(eventStore') + Len(pending') > Len(eventStore) + Len(pending)
    => call'.op \in CommitCalls

(* C25 as claimed: a commit appends every buffered event to the EventStore,*)
(* then commits the database transaction, then publishes the events, and   *)
(* returns with the buffer empty; no append is made after the database     *)
(* commit or outside a commit.                                             *)
C25_CommitOrder ==
    /\ [](call.op \in CommitCalls => CommitStepsInOrder)
    /\ [][AppendOnlyInCommit]_vars

(***************************************************************************)
(* Properties of the EventStore rows of the services.                      *)
(***************************************************************************)
(* the event of the i-th successful invocation has a row in the committed  *)
(* EventStore                                                              *)
Stored(i) ==
    \E j \in DOMAIN eventStore :
        /\ eventStore[j].event.scope = log[i].scope
        /\ eventStore[j].event.type = EventTypeOf(log[i].op)
        /\ eventStore[j].event.aggregate_id = log[i].ticket_id

(* C26 as claimed: with an EventStore, when the database transaction of a  *)
(* scope is committed the event enqueued in that scope is in the committed *)
(* EventStore, whether or not it has been published.                       *)
C26_CommittedScopeHasItsEvents ==
    \A i \in DOMAIN log : log[i].scope \in committedScopes => Stored(i)

(***************************************************************************)
(* Properties of the sequence numbers across units of work.                *)
(***************************************************************************)
(* the buffered events of aggregate a, in enqueue order *)
OfAggregate(evs, a) == SelectSeq(evs, LAMBDA e : e.aggregate_id = a)

AllDone == \A t \in Threads : threads[t].pc = "done"

(* unit of work, connection, store and publisher before the invocations *)
StartWorld ==
    [World EXCEPT !.tickets = StoredAtStart, !.eventStore = <<>>,
                  !.published = <<>>, !.committedScopes = {},
                  !.rolledBackScopes = {}]

(* the invocation of thread t run from w with nothing else running, in a   *)
(* unit of work of its own                                                 *)
RunAlone(w, t, event_id) ==
    with_uow(unit_of_work_factory(w),
             ServiceBody(threads[t].inv, enter_scope(unit_of_work_factory(w), t),
                         event_id, t, now),
             NoFaults)

(* the invocations of threads first and second run one after the other *)
Sequential(first, second) ==
    RunAlone(RunAlone(StartWorld, first, 1).w, second, 2).w

(* class and payload of the events of one ticket in a sequence, in order *)
EventsOf(evs, ticket_id) ==
    LET own == SelectSeq(evs, LAMBDA e : e.aggregate_id = ticket_id)
    IN  [k \in 1..Len(own) |-> [type |-> own[k].type, data |-> own[k].data]]

(* C22: when two invocations on two different tickets, each in its own     *)
(* unit of work, have run interleaved, every ticket is stored as, and the  *)
(* events published for every ticket are those that, the two invocations   *)
(* run one after the other in either order leave.                          *)
C22_DifferentTicketsIndependent ==
    (AllDone /\ threads[1].inv.ticket_id # threads[2].inv.ticket_id)
    => \A order \in {<<1, 2>>, <<2, 1>>}, id \in AggregateIds :
           /\ tickets[id] = Sequential(order[1], order[2]).tickets[id]
           /\ EventsOf(published, id)
                  = EventsOf(Sequential(order[1], order[2]).published, id)

(* C22 witness: both invocations succeeded on different tickets, and the   *)
(* one that saved last committed first                                     *)
C22_Witness ==
    /\ AllDone
    /\ threads[1].inv.ticket_id # threads[2].inv.ticket_id
    /\ threads[1].err = NoError
    /\ threads[2].err = NoError
    /\ Len(published) = 2
    /\ published[1].id > published[2].id

(* C23: an invocation ends as it does alone on the ticket it loaded,       *)
(* whatever another invocation on the same ticket has saved or committed   *)
(* since: two FecharTicket that both loaded the open ticket both commit    *)
(* and two TicketFechadoEvent are published for it.                        *)
C23_NoLockOnSameTicket ==
    (/\ AllDone
     /\ threads[1].inv.ticket_id = threads[2].inv.ticket_id
     /\ \A t \in Threads :
            threads[t].ticket = StoredAtStart[threads[t].inv.ticket_id])
    => /\ \A t \in Threads : threads[t].err = RunAlone(StartWorld, t, 1).err
       /\ Len(EventsOf(published, threads[1].inv.ticket_id))
              = Cardinality({t \in Threads : threads[t].err = NoError})
       /\ (\A t \in Threads : threads[t].inv.op = "fechar")
          => /\ \A t \in Threads : threads[t].err = NoError
             /\ tickets[threads[1].inv.ticket_id].status = "FECHADO"
             /\ \A k \in 1..2 : published[k].type = "TicketFechadoEvent"

(* C23 witness: two FecharTicket on one ticket have both committed *)
C23_Witness ==
    /\ AllDone
    /\ threads[1].inv = threads[2].inv
    /\ threads[1].inv.op = "fechar"
    /\ threads[1].err = NoError
    /\ threads[2].err = NoError
    /\ Len(published) = 2
    /\ published[1].type = "TicketFechadoEvent"
    /\ published[2].type = "TicketFechadoEvent"
    /\ published[1].aggregate_id = published[2].aggregate_id

(***************************************************************************)
(* Properties of the event dispatcher.                                     *)
(***************************************************************************)
(* the handler written for each kind of event the services publish *)
HandlerOfKind(type) ==
    CASE type = "TicketCriadoEvent" -> "handle_ticket_criado"
      [] type = "TicketAtribuidoEvent" -> "handle_ticket_atribuido"
      [] type = "TicketFechadoEvent" -> "handle_ticket_fechado"
      [] type = "TicketReabertoEvent" -> "handle_ticket_reaberto"
      [] type = "TicketPrioridadeAlteradaEvent" -> "handle_prioridade_alterada"

(* C31: every event a service has published, dispatched under the event    *)
(* type name the event itself reports, invokes exactly the handler of its  *)
(* kind.                                                                   *)
C31_DispatcherRoutesEveryEvent ==
    \A k \in DOMAIN published :
        CeleryEventPublisher_publish(published[k])
            = {HandlerOfKind(published[k].type)}

(***************************************************************************)
(* Properties of the two units of work given the same calls.               *)
(***************************************************************************)
(* C32: after any sequence of scope entries, enqueues, normal exits and    *)
(* exception exits, the InMemoryUnitOfWork has recorded as published the   *)
(* events the DjangoUnitOfWork handed to its publisher, and both report    *)
(* the same committed and rolled-back flags.                               *)
C32_InMemorySimulatesDjango ==
    /\ inMemory.published = published
    /\ inMemory.committed = committed
    /\ inMemory.rolled_back = rolled_back

=============================================================================
